---- MODULE Spec2Model ----
(***************************************************************************)
(* Model of hedeqiang/skeleton: the message dispatch registry with its     *)
(* RabbitMQ consumer bridge (internal/messaging, pkg/mq, cmd/consumer),    *)
(* the job registry with its scheduler service (internal/scheduler) in the *)
(* scheduler process and in the API server (internal/app), the triggers of *)
(* its jobs, the ID generator (pkg/idgen), and the hello messages from     *)
(* their publisher (internal/service) to the HelloProcessor.               *)
(***************************************************************************)
EXTENDS Integers, Sequences, FiniteSets, TLC

\* ------------------------------------------------------------------ bounds
MaxRegs == 3          \* RegisterProcessor calls made during startup
MaxQueue == 1         \* messages published to the queue and not yet delivered
MaxDeliveries == 2    \* deliveries the broker makes on the consumer's channel
MaxSpecs == 2         \* job specs in the scheduler configuration
MaxInits == 2         \* InitializeJobs runs (directly or from Start) that reach the loop
MaxInflight == 1      \* executions of jobs in flight at the same time
MaxRuns == 2          \* runs of one job that the clock is followed through
MaxIDs == 3           \* NextID calls on one generator
BitsTime == 3         \* width of the time part of an ID (39 in Sonyflake)
BitsSequence == 1     \* width of the sequence part (8 in DefaultConfig)
BitsMachineID == 1    \* width of the machine part (16 in DefaultConfig)
MaxStamp == 2         \* instants time.Now() gives to PublishHelloMessage

VARIABLES
    \* ProcessorRegistry and the consumer process
    processors,   \* ProcessorRegistry.processors: message type -> processor
    regLog,       \* history: the processors passed to RegisterProcessor, in order
    serving,      \* TRUE once main has started the queue consumers
    \* the broker queue and the goroutine of Consumer.Consume
    queue,        \* messages waiting in the broker queue (head is delivered next)
    msgs,         \* the channel msgs: deliveries made by the broker and not yet pulled
    nextTag,      \* the delivery tag of the last delivery made on the AMQP channel
    cpc,          \* position of the consuming goroutine: "recv", "handle", "settle",
                  \* and "done" once the range over msgs has ended
    d,            \* the delivery d in hand: its body, what handler(ctx, d.Body)
                  \* returned and invoked, and the Ack and Nack calls made on it
    mainpc        \* position of main of cmd/consumer: "wait" (<-quit), "shutdown",
                  \* "stopped" (connection closed), "exited"; "none" in a process
                  \* that is not cmd/consumer

msgVars == <<processors, regLog, serving, queue, msgs, nextTag, cpc, d, mainpc>>

VARIABLES
    \* JobRegistry and SchedulerService
    config,          \* JobRegistry.config: [Enabled, Jobs]
    registeredJobs,  \* JobRegistry.registeredJobs: the names that have a factory
    jobs,            \* SchedulerService.jobs: the jobs created in the scheduler
    sched,           \* the gocron scheduler: "new", "running" or "shutdown"
    inflight,        \* the jobs (by index) whose Execute() has begun and not returned
    th,              \* per calling goroutine: its position in Start/InitializeJobs/Stop
    ret,             \* per calling goroutine: the call that returned last
    inits,           \* history: the InitializeJobs runs begun so far
    stopReturned     \* history: some Stop() has returned

schedVars == <<config, registeredJobs, jobs, sched, inflight, th, ret, inits, stopReturned>>

VARIABLES
    \* the goroutines of Start() and GetJobs(), one memory access at a time
    loc              \* per calling goroutine: its local variables (the loop index i,
                     \* the slice header it is about to store, the length it read)

statusVars == <<loc>>

VARIABLES
    \* the scheduler's clock, in seconds (0 is midnight of day 0)
    now,             \* the current instant
    startedAt,       \* history: the instant Start() was called at
    nextRun,         \* per job of s.jobs: what job.NextRun() gives
    lastRun,         \* per job of s.jobs: what job.LastRun() gives (0: never run)
    runs,            \* per job of s.jobs: the number of its Execute() calls
    outcome          \* history, per job of s.jobs: how the work of its last Execute()
                     \* ended ("ok", "failed"; "none" before the first)

clockVars == <<now, startedAt, nextRun, lastRun, runs, outcome>>

VARIABLES
    \* SonyflakeGenerator
    machineID,       \* the machine ID the generator was created with
    elapsedTime,     \* sf: the time part of the last ID, in time units since StartTime
    sequence,        \* sf: the sequence part of the last ID
    issued,          \* history: the IDs NextID has returned without an error
    last,            \* history: the last return of NextID
    calls            \* history: the number of NextID calls

idVars == <<machineID, elapsedTime, sequence, issued, last, calls>>

VARIABLES
    \* hello messages from helloService to the HelloProcessor, as JSON documents
    wire,            \* the documents published and not yet dispatched, each with
                     \* (history) the request it was built from
    event            \* history: the last dispatch of a document, with the payload
                     \* the processor was handed and the HelloEvent it decoded

helloVars == <<wire, event>>

\* what the actions of each part leave alone
outsideMessaging == <<schedVars, statusVars, clockVars, idVars, helloVars>>
outsideScheduler == <<msgVars, statusVars, clockVars, idVars, helloVars>>
outsideStatus == <<msgVars, clockVars, idVars, helloVars>>
outsideClock == <<msgVars, statusVars, idVars, helloVars>>
outsideIdgen == <<msgVars, schedVars, statusVars, clockVars, helloVars>>
outsideHello == <<msgVars, schedVars, statusVars, clockVars, idVars>>

\* ------------------------------------------------- processors and messages
\* The implementations of MessageProcessor: the repository's HelloProcessor, a
\* second processor of the same type, and one of another type.
Processors == {"HelloProcessor", "HelloProcessorV2", "UserEventProcessor"}

GetSupportedMessageType(p) ==
    IF p = "UserEventProcessor" THEN "user" ELSE "hello"

MessageTypes == {"hello", "user", "order"}

\* A delivery body: bytes that are not a JSON envelope, or an envelope with a
\* message_type and a payload the processor can ("good") or cannot ("bad") decode.
NotJSON == [json |-> FALSE, message_type |-> "", payload |-> ""]
Bodies ==
    {NotJSON} \cup [json : {TRUE}, message_type : MessageTypes, payload : {"good", "bad"}]

\* json.Unmarshal(body, &envelope)
UnmarshalEnvelope(body) ==
    IF body.json
    THEN [err |-> "nil",
          envelope |-> [MessageType |-> body.message_type, Payload |-> body.payload]]
    ELSE [err |-> "invalid json", envelope |-> [MessageType |-> "", Payload |-> ""]]

\* envelope.UnmarshalPayload(&event)
UnmarshalPayload(envelope) ==
    IF envelope.Payload = "good" THEN "nil" ELSE "invalid payload"

\* processor.ProcessMessage(ctx, &envelope, app): the error it returns
ProcessMessage(p, envelope) == UnmarshalPayload(envelope)

\* Mutant: a registration that refuses to replace an existing entry.
RegisterProcessor_KeepFirst(reg, p) ==
    [t \in DOMAIN reg \cup {GetSupportedMessageType(p)} |->
        IF t \in DOMAIN reg THEN reg[t] ELSE p]

\* r.processors[messageType] = processor
RegisterProcessor(reg, p) ==
    [t \in DOMAIN reg \cup {GetSupportedMessageType(p)} |->
        IF t = GetSupportedMessageType(p) THEN p ELSE reg[t]]

\* Mutant: the lookup ignores the envelope's type and takes any registered processor.
ProcessIncomingMessage_AnyProcessor(reg, body) ==
    LET u == UnmarshalEnvelope(body) IN
    IF u.err # "nil"
    THEN [err |-> "failed to unmarshal message envelope: " \o u.err, calls |-> <<>>]
    ELSE IF u.envelope.MessageType \notin DOMAIN reg
    THEN [err |-> "nil", calls |-> <<>>]
    ELSE LET p == reg[CHOOSE t \in DOMAIN reg : t # u.envelope.MessageType
                                                \/ DOMAIN reg = {t}] IN
         [err |-> ProcessMessage(p, u.envelope), calls |-> <<p>>]

\* Mutant: a missing processor is reported as an error instead of being ignored.
ProcessIncomingMessage_ErrorOnUnknown(reg, body) ==
    LET u == UnmarshalEnvelope(body) IN
    IF u.err # "nil"
    THEN [err |-> "failed to unmarshal message envelope: " \o u.err, calls |-> <<>>]
    ELSE IF u.envelope.MessageType \notin DOMAIN reg
    THEN [err |-> "no processor found", calls |-> <<>>]
    ELSE [err |-> ProcessMessage(reg[u.envelope.MessageType], u.envelope),
          calls |-> <<reg[u.envelope.MessageType]>>]

\* Mutant: a body that is not an envelope is dropped without an error.
ProcessIncomingMessage_IgnoreDecodeError(reg, body) ==
    LET u == UnmarshalEnvelope(body) IN
    IF u.err # "nil"
    THEN [err |-> "nil", calls |-> <<>>]
    ELSE IF u.envelope.MessageType \notin DOMAIN reg
    THEN [err |-> "nil", calls |-> <<>>]
    ELSE [err |-> ProcessMessage(reg[u.envelope.MessageType], u.envelope),
          calls |-> <<reg[u.envelope.MessageType]>>]

\* ProcessIncomingMessage(ctx, body, app): the error returned and the processors
\* whose ProcessMessage was invoked, in order.
ProcessIncomingMessage(reg, body) ==
    LET u == UnmarshalEnvelope(body) IN
    IF u.err # "nil"
    THEN [err |-> "failed to unmarshal message envelope: " \o u.err, calls |-> <<>>]
    ELSE IF u.envelope.MessageType \notin DOMAIN reg
    THEN [err |-> "nil", calls |-> <<>>]
    ELSE [err |-> ProcessMessage(reg[u.envelope.MessageType], u.envelope),
          calls |-> <<reg[u.envelope.MessageType]>>]

\* Mutant: the registry's error is returned wrapped in a message of the service.
ConsumeMessage_Wrapped(reg, body) ==
    LET r == ProcessIncomingMessage(reg, body) IN
    IF r.err # "nil"
    THEN [err |-> "failed to process incoming message: " \o r.err, calls |-> r.calls]
    ELSE [err |-> "nil", calls |-> r.calls]

\* MessageConsumerService.ConsumeMessage: if err := ...ProcessIncomingMessage(...);
\* err != nil { return err }; return nil
ConsumeMessage(reg, body) ==
    LET r == ProcessIncomingMessage(reg, body) IN
    IF r.err # "nil"
    THEN [err |-> r.err, calls |-> r.calls]
    ELSE [err |-> "nil", calls |-> r.calls]

\* the messageHandler closure of startQueueConsumer: if err := ...ConsumeMessage(ctx,
\* body); err != nil { return err }; return nil
messageHandler(reg, body) ==
    LET r == ConsumeMessage(reg, body) IN
    IF r.err # "nil"
    THEN [err |-> r.err, calls |-> r.calls]
    ELSE [err |-> "nil", calls |-> r.calls]

\* --------------------------------------------------------------- messaging
\* No delivery pulled yet; a pulled delivery records the handler's return (its
\* error and the processors it invoked) and the Ack and Nack calls made on it, and
\* in prev (history) what the handler returned on the delivery pulled before it.
NoDelivery ==
    [pulled |-> FALSE, tag |-> 0, body |-> NotJSON, returned |-> FALSE, err |-> "nil",
     calls |-> <<>>, acks |-> 0, nacks |-> 0, requeue |-> FALSE, prev |-> "none"]

\* Mutant: a consumer whose channel has no prefetch limit (0 is "no limit").
NewConsumer_NoQos == [prefetch |-> 0]

\* NewConsumer: the channel after ch.Qos(1, 0, false)
NewConsumer == [prefetch |-> 1]

\* The connection app.RabbitMQ is open until App.Stop closes it.
ConnectionOpen == mainpc \in {"wait", "shutdown"}

\* The deliveries made on the channel and neither acknowledged nor rejected.
Unacked == Len(msgs) + (IF cpc \in {"handle", "settle"} THEN 1 ELSE 0)

\* Consume(queueName, consumerName, handler): after channel.Consume it starts the
\* goroutine of the loop and waits on <-forever, a channel nothing sends on.
Consume == IF serving THEN "forever" ELSE "not called"

InitMessaging ==
    /\ processors = <<>>
    /\ regLog = <<>>
    /\ serving = FALSE
    /\ queue = <<>>
    /\ msgs = <<>>
    /\ nextTag = 0
    /\ cpc = "recv"
    /\ d = NoDelivery
    /\ mainpc = "wait"

\* Mutant: processors are registered while the consumers are running as well.
DoRegisterProcessor_Anytime ==
    /\ Len(regLog) < MaxRegs
    /\ \E p \in Processors :
        /\ processors' = RegisterProcessor(processors, p)
        /\ regLog' = Append(regLog, p)
    /\ UNCHANGED <<serving, queue, msgs, nextTag, cpc, d, mainpc>>
    /\ UNCHANGED outsideMessaging

\* registerEventProcessors: one RegisterProcessor call, before consumption starts
DoRegisterProcessor ==
    /\ ~serving
    /\ Len(regLog) < MaxRegs
    /\ \E p \in Processors :
        /\ processors' = RegisterProcessor(processors, p)
        /\ regLog' = Append(regLog, p)
    /\ UNCHANGED <<serving, queue, msgs, nextTag, cpc, d, mainpc>>
    /\ UNCHANGED outsideMessaging

\* main: startMessageConsumption, after NewMessageConsumerService has returned
StartMessageConsumption ==
    /\ ~serving
    /\ serving' = TRUE
    /\ UNCHANGED <<processors, regLog, queue, msgs, nextTag, cpc, d, mainpc>>
    /\ UNCHANGED outsideMessaging

\* a producer publishes a message that the broker routes to the queue
Publish ==
    /\ Len(queue) < MaxQueue
    /\ \E b \in Bodies : queue' = Append(queue, b)
    /\ UNCHANGED <<processors, regLog, serving, msgs, nextTag, cpc, d, mainpc>>
    /\ UNCHANGED outsideMessaging

\* The broker delivers the head of the queue to the registered consumer, with the
\* channel's next delivery tag, while the channel's prefetch limit allows it.
Deliver ==
    /\ serving
    /\ ConnectionOpen
    /\ queue # <<>>
    /\ nextTag < MaxDeliveries
    /\ NewConsumer.prefetch = 0 \/ Unacked < NewConsumer.prefetch
    /\ nextTag' = nextTag + 1
    /\ msgs' = Append(msgs, [tag |-> nextTag + 1, body |-> Head(queue)])
    /\ queue' = Tail(queue)
    /\ UNCHANGED <<processors, regLog, serving, cpc, d, mainpc>>
    /\ UNCHANGED outsideMessaging

\* for d := range msgs: the next delivery is pulled from the channel
Receive ==
    /\ cpc = "recv"
    /\ mainpc # "exited"
    /\ msgs # <<>>
    /\ msgs' = Tail(msgs)
    /\ d' = [NoDelivery EXCEPT !.pulled = TRUE, !.tag = Head(msgs).tag,
                                !.body = Head(msgs).body,
                                !.prev = IF d.pulled THEN d.err ELSE "none"]
    /\ cpc' = "handle"
    /\ UNCHANGED <<processors, regLog, serving, queue, nextTag, mainpc>>
    /\ UNCHANGED outsideMessaging

\* err := handler(ctx, d.Body)
Handle ==
    /\ cpc = "handle"
    /\ mainpc # "exited"
    /\ LET r == messageHandler(processors, d.body) IN
        d' = [d EXCEPT !.returned = TRUE, !.err = r.err, !.calls = r.calls]
    /\ cpc' = "settle"
    /\ UNCHANGED <<processors, regLog, serving, queue, msgs, nextTag, mainpc>>
    /\ UNCHANGED outsideMessaging

\* Mutant: the delivery is acknowledged whatever the handler returned.
Settle_AckAlways ==
    /\ cpc = "settle"
    /\ mainpc # "exited"
    /\ d' = [d EXCEPT !.acks = @ + 1]
    /\ queue' = queue
    /\ cpc' = "recv"
    /\ UNCHANGED <<processors, regLog, serving, msgs, nextTag, mainpc>>
    /\ UNCHANGED outsideMessaging

\* Mutant: the delivery is rejected and requeued whatever the handler returned.
Settle_NackAlways ==
    /\ cpc = "settle"
    /\ mainpc # "exited"
    /\ d' = [d EXCEPT !.nacks = @ + 1, !.requeue = TRUE]
    /\ queue' = IF ConnectionOpen THEN <<d.body>> \o queue ELSE queue
    /\ cpc' = "recv"
    /\ UNCHANGED <<processors, regLog, serving, msgs, nextTag, mainpc>>
    /\ UNCHANGED outsideMessaging

\* Mutant: the loop ends at the first delivery whose handler returned an error.
Settle_StopOnError ==
    /\ cpc = "settle"
    /\ mainpc # "exited"
    /\ IF d.err # "nil"
       THEN /\ d' = [d EXCEPT !.nacks = @ + 1, !.requeue = TRUE]
            /\ queue' = IF ConnectionOpen THEN <<d.body>> \o queue ELSE queue
            /\ cpc' = "done"
       ELSE /\ d' = [d EXCEPT !.acks = @ + 1]
            /\ queue' = queue
            /\ cpc' = "recv"
    /\ UNCHANGED <<processors, regLog, serving, msgs, nextTag, mainpc>>
    /\ UNCHANGED outsideMessaging

\* if err != nil { d.Nack(false, true) } else { d.Ack(false) }. A rejected delivery
\* goes back to the head of the queue. On a closed connection the call fails (its
\* error is not looked at) and the broker has taken the delivery back already.
Settle ==
    /\ cpc = "settle"
    /\ mainpc # "exited"
    /\ IF d.err # "nil"
       THEN /\ d' = [d EXCEPT !.nacks = @ + 1, !.requeue = TRUE]
            /\ queue' = IF ConnectionOpen THEN <<d.body>> \o queue ELSE queue
       ELSE /\ d' = [d EXCEPT !.acks = @ + 1]
            /\ queue' = queue
    /\ cpc' = "recv"
    /\ UNCHANGED <<processors, regLog, serving, msgs, nextTag, mainpc>>
    /\ UNCHANGED outsideMessaging

\* main: a signal arrives on quit and messageConsumerService.Shutdown(ctx) is
\* called, which logs and returns nil
ConsumerShutdown ==
    /\ serving
    /\ mainpc = "wait"
    /\ mainpc' = "shutdown"
    /\ UNCHANGED <<processors, regLog, serving, queue, msgs, nextTag, cpc, d>>
    /\ UNCHANGED outsideMessaging

\* The bodies of a sequence of deliveries.
RECURSIVE BodiesOf(_)
BodiesOf(ds) == IF ds = <<>> THEN <<>> ELSE <<Head(ds).body>> \o BodiesOf(Tail(ds))

\* main: application.Stop() closes the connection app.RabbitMQ. The broker takes
\* back the deliveries not acknowledged, and the channel msgs is closed.
AppStop ==
    /\ mainpc = "shutdown"
    /\ mainpc' = "stopped"
    /\ queue' = (IF cpc \in {"handle", "settle"} THEN <<d.body>> ELSE <<>>)
                    \o BodiesOf(msgs) \o queue
    /\ msgs' = <<>>
    /\ UNCHANGED <<processors, regLog, serving, nextTag, cpc, d>>
    /\ UNCHANGED outsideMessaging

\* for d := range msgs ends when msgs is closed: the goroutine of the loop ends
RangeEnd ==
    /\ cpc = "recv"
    /\ mainpc = "stopped"
    /\ msgs = <<>>
    /\ cpc' = "done"
    /\ UNCHANGED <<processors, regLog, serving, queue, msgs, nextTag, d, mainpc>>
    /\ UNCHANGED outsideMessaging

\* main returns: the process exits and its goroutines with it
MainExit ==
    /\ mainpc = "stopped"
    /\ mainpc' = "exited"
    /\ UNCHANGED <<processors, regLog, serving, queue, msgs, nextTag, cpc, d>>
    /\ UNCHANGED outsideMessaging

NextMessaging ==
    \/ DoRegisterProcessor
    \/ StartMessageConsumption
    \/ Publish
    \/ Deliver
    \/ Receive
    \/ Handle
    \/ Settle

\* The consumer process from the start of consumption to the return of main.
NextBridge ==
    \/ StartMessageConsumption
    \/ Publish
    \/ Deliver
    \/ Receive
    \/ Handle
    \/ Settle
    \/ ConsumerShutdown
    \/ AppStop
    \/ RangeEnd
    \/ MainExit

\* --------------------------------------------------------------- scheduler
\* The goroutines that call the registry. "app" is the application: App.Run calls
\* Start() once and App.Stop calls Stop() once. "api" is the control surface
\* (SchedulerHandler.StartScheduler, StopScheduler, GetJobs), whose requests come
\* in any number and order, and a direct caller of InitializeJobs().
Threads == {"app", "api"}

\* In the API server App.Run calls Start() in a goroutine of its own ("app") and
\* App.Stop is called by main ("main"), which waits for a signal and not for the
\* return of Start().
Goroutines == Threads \cup {"main"}

\* may goroutine t call op now
MayCall(t, op) ==
    \/ t = "api"
    \/ t = "app" /\ op = "Start" /\ ret[t].op = ""
    \/ t = "app" /\ op = "Stop" /\ ret[t].op = "Start"
    \/ t = "main" /\ op = "Stop" /\ ret[t].op = ""

\* Schedule strings, as the sequences of their characters.
S_30s == <<"3", "0", "s">>
S_1m30s == <<"1", "m", "3", "0", "s">>
S_90 == <<"9", "0">>
S_soon == <<"s", "o", "o", "n">>
S_0200 == <<"0", "2", ":", "0", "0">>
S_1430 == <<"1", "4", ":", "3", "0">>
S_930 == <<"9", ":", "3", "0">>
S_2500 == <<"2", "5", ":", "0", "0">>
S_143 == <<"1", "4", ":", "3">>
S_cron5 == <<"0", " ", "*", "/", "6", " ", "*", " ", "*", " ", "*">>
S_cron6 == <<"*", "/", "3", "0", " ", "*", " ", "*", " ", "*", " ", "*", " ", "*">>
S_cron4 == <<"0", " ", "*", " ", "*", " ", "*">>
S_cron61 == <<"6", "1", " ", "*", " ", "*", " ", "*", " ", "*">>

\* Job specs (config.SchedulerJobConfig) the configuration is drawn from.
\* hello_job has the default factory, cleanup_job one only after RegisterJob.
JobSpecs ==
    { [Name |-> "hello_job", Type |-> "duration", Schedule |-> S_30s, Enabled |-> TRUE],
      [Name |-> "hello_job", Type |-> "duration", Schedule |-> S_30s, Enabled |-> FALSE],
      [Name |-> "hello_job", Type |-> "duration", Schedule |-> S_soon, Enabled |-> TRUE],
      [Name |-> "cleanup_job", Type |-> "daily", Schedule |-> S_0200, Enabled |-> TRUE] }

\* The configurations of a process that starts the job registry: both jobs, the
\* second of which needs a factory registered at startup.
StartupConfigs ==
    { [Enabled |-> TRUE,
       Jobs |-> << [Name |-> "hello_job", Type |-> "duration", Schedule |-> S_30s,
                    Enabled |-> TRUE],
                   [Name |-> "cleanup_job", Type |-> "daily", Schedule |-> S_0200,
                    Enabled |-> TRUE] >>] }

JobLists == UNION {[1..n -> JobSpecs] : n \in 0..MaxSpecs}

Configs == [Enabled : BOOLEAN, Jobs : JobLists]

\* Decimal digits and their values.
Digits == <<"0", "1", "2", "3", "4", "5", "6", "7", "8", "9">>
IsDigit(c) == \E n \in 1..10 : Digits[n] = c
DigitValue(c) == (CHOOSE n \in 1..10 : Digits[n] = c) - 1

\* The longest prefix of s made of digits (of characters that are no digits).
RECURSIVE LeadingDigits(_)
LeadingDigits(s) ==
    IF s = <<>> \/ ~IsDigit(Head(s)) THEN <<>> ELSE <<Head(s)>> \o LeadingDigits(Tail(s))

RECURSIVE LeadingUnit(_)
LeadingUnit(s) ==
    IF s = <<>> \/ IsDigit(Head(s)) THEN <<>> ELSE <<Head(s)>> \o LeadingUnit(Tail(s))

\* The number a sequence of digits denotes.
RECURSIVE ToInt(_)
ToInt(ds) == IF ds = <<>> THEN 0 ELSE 10 * ToInt(SubSeq(ds, 1, Len(ds) - 1)) + DigitValue(ds[Len(ds)])

\* The units of time.ParseDuration from the second up, in seconds.
UnitSeconds(u) ==
    IF u = <<"s">> THEN 1 ELSE IF u = <<"m">> THEN 60 ELSE IF u = <<"h">> THEN 3600 ELSE 0

\* The loop of time.ParseDuration over the groups "<digits><unit>" of s: a group
\* without digits or with a missing or unknown unit is an error.
RECURSIVE ParseGroups(_, _)
ParseGroups(s, acc) ==
    IF s = <<>> THEN [ok |-> TRUE, d |-> acc]
    ELSE LET ds == LeadingDigits(s)
             rest == SubSeq(s, Len(ds) + 1, Len(s))
             u == LeadingUnit(rest) IN
         IF ds = <<>> \/ UnitSeconds(u) = 0 THEN [ok |-> FALSE, d |-> 0]
         ELSE ParseGroups(SubSeq(rest, Len(u) + 1, Len(rest)), acc + ToInt(ds) * UnitSeconds(u))

\* time.ParseDuration(s): a duration in seconds. "0" alone is the zero duration,
\* the empty string an error.
ParseDuration(s) ==
    IF s = <<"0">> THEN [ok |-> TRUE, d |-> 0]
    ELSE IF s = <<>> THEN [ok |-> FALSE, d |-> 0]
    ELSE ParseGroups(s, 0)

\* time.Parse("15:04", s): the hour is one or two digits, the minute two digits,
\* nothing may follow, and the hour is below 24 and the minute below 60.
ParseClock(s) ==
    LET hs == IF Len(LeadingDigits(s)) >= 2 THEN SubSeq(s, 1, 2) ELSE LeadingDigits(s)
        rest == SubSeq(s, Len(hs) + 1, Len(s))
        ms == IF rest # <<>> THEN Tail(rest) ELSE <<>> IN
    IF /\ hs # <<>>
       /\ rest # <<>> /\ Head(rest) = ":"
       /\ Len(ms) = 2 /\ IsDigit(ms[1]) /\ IsDigit(ms[2])
       /\ ToInt(hs) < 24 /\ ToInt(ms) < 60
    THEN [ok |-> TRUE, hour |-> ToInt(hs), minute |-> ToInt(ms)]
    ELSE [ok |-> FALSE, hour |-> 0, minute |-> 0]

\* Mutant: the parsed duration is taken for a number of minutes.
createJobDefinition_Minutes(jobConfig) ==
    IF jobConfig.Type = "duration"
    THEN LET p == ParseDuration(jobConfig.Schedule) IN
         IF p.ok
         THEN [err |-> "nil", def |-> [kind |-> "DurationJob", duration |-> p.d * 60]]
         ELSE [err |-> "invalid duration format", def |-> [kind |-> ""]]
    ELSE IF jobConfig.Type = "cron"
    THEN [err |-> "nil",
          def |-> [kind |-> "CronJob", crontab |-> jobConfig.Schedule, withSeconds |-> FALSE]]
    ELSE IF jobConfig.Type = "daily"
    THEN LET t == ParseClock(jobConfig.Schedule) IN
         IF t.ok
         THEN [err |-> "nil",
               def |-> [kind |-> "DailyJob", interval |-> 1,
                        hours |-> t.hour, minutes |-> t.minute, seconds |-> 0]]
         ELSE [err |-> "invalid daily time format (should be HH:MM)", def |-> [kind |-> ""]]
    ELSE [err |-> "unsupported job type: " \o jobConfig.Type, def |-> [kind |-> ""]]

\* Mutant: the minute of the daily time is not passed on.
createJobDefinition_MinuteDropped(jobConfig) ==
    IF jobConfig.Type = "duration"
    THEN LET p == ParseDuration(jobConfig.Schedule) IN
         IF p.ok
         THEN [err |-> "nil", def |-> [kind |-> "DurationJob", duration |-> p.d]]
         ELSE [err |-> "invalid duration format", def |-> [kind |-> ""]]
    ELSE IF jobConfig.Type = "cron"
    THEN [err |-> "nil",
          def |-> [kind |-> "CronJob", crontab |-> jobConfig.Schedule, withSeconds |-> FALSE]]
    ELSE IF jobConfig.Type = "daily"
    THEN LET t == ParseClock(jobConfig.Schedule) IN
         IF t.ok
         THEN [err |-> "nil",
               def |-> [kind |-> "DailyJob", interval |-> 1,
                        hours |-> t.hour, minutes |-> 0, seconds |-> 0]]
         ELSE [err |-> "invalid daily time format (should be HH:MM)", def |-> [kind |-> ""]]
    ELSE [err |-> "unsupported job type: " \o jobConfig.Type, def |-> [kind |-> ""]]

\* Mutant: the crontab is parsed with a field of seconds allowed.
createJobDefinition_WithSeconds(jobConfig) ==
    IF jobConfig.Type = "duration"
    THEN LET p == ParseDuration(jobConfig.Schedule) IN
         IF p.ok
         THEN [err |-> "nil", def |-> [kind |-> "DurationJob", duration |-> p.d]]
         ELSE [err |-> "invalid duration format", def |-> [kind |-> ""]]
    ELSE IF jobConfig.Type = "cron"
    THEN [err |-> "nil",
          def |-> [kind |-> "CronJob", crontab |-> jobConfig.Schedule, withSeconds |-> TRUE]]
    ELSE IF jobConfig.Type = "daily"
    THEN LET t == ParseClock(jobConfig.Schedule) IN
         IF t.ok
         THEN [err |-> "nil",
               def |-> [kind |-> "DailyJob", interval |-> 1,
                        hours |-> t.hour, minutes |-> t.minute, seconds |-> 0]]
         ELSE [err |-> "invalid daily time format (should be HH:MM)", def |-> [kind |-> ""]]
    ELSE [err |-> "unsupported job type: " \o jobConfig.Type, def |-> [kind |-> ""]]

\* createJobDefinition(jobConfig): the error returned, and the definition
createJobDefinition(jobConfig) ==
    IF jobConfig.Type = "duration"
    THEN LET p == ParseDuration(jobConfig.Schedule) IN
         IF p.ok
         THEN [err |-> "nil", def |-> [kind |-> "DurationJob", duration |-> p.d]]
         ELSE [err |-> "invalid duration format", def |-> [kind |-> ""]]
    ELSE IF jobConfig.Type = "cron"
    THEN [err |-> "nil",
          def |-> [kind |-> "CronJob", crontab |-> jobConfig.Schedule, withSeconds |-> FALSE]]
    ELSE IF jobConfig.Type = "daily"
    THEN LET t == ParseClock(jobConfig.Schedule) IN
         IF t.ok
         THEN [err |-> "nil",
               def |-> [kind |-> "DailyJob", interval |-> 1,
                        hours |-> t.hour, minutes |-> t.minute, seconds |-> 0]]
         ELSE [err |-> "invalid daily time format (should be HH:MM)", def |-> [kind |-> ""]]
    ELSE [err |-> "unsupported job type: " \o jobConfig.Type, def |-> [kind |-> ""]]

\* The fields of a crontab: the parts of s between its blanks.
RECURSIVE Fields(_)
Fields(s) ==
    IF s = <<>> THEN <<>>
    ELSE IF Head(s) = " " THEN Fields(Tail(s))
    ELSE LET RECURSIVE Word(_)
             Word(r) == IF r = <<>> \/ Head(r) = " " THEN <<>>
                        ELSE <<Head(r)>> \o Word(Tail(r))
             w == Word(s) IN
         <<w>> \o Fields(SubSeq(s, Len(w) + 1, Len(s)))

\* One field of a crontab, of the forms "*", "*/n" and "n", with n in lo..hi.
CronField(f, lo, hi) ==
    \/ f = <<"*">>
    \/ /\ Len(f) > 2 /\ f[1] = "*" /\ f[2] = "/"
       /\ LeadingDigits(SubSeq(f, 3, Len(f))) = SubSeq(f, 3, Len(f))
       /\ ToInt(SubSeq(f, 3, Len(f))) > 0
    \/ /\ f # <<>> /\ LeadingDigits(f) = f
       /\ ToInt(f) >= lo /\ ToInt(f) <= hi

\* The ranges of minute, hour, day of month, month and day of week.
CronRanges == << <<0, 59>>, <<0, 23>>, <<1, 31>>, <<1, 12>>, <<0, 6>> >>

\* gocron's parse of a crontab: five fields, and with withSeconds a field of
\* seconds may come first.
ParseCron(s, withSeconds) ==
    LET fs == Fields(s)
        five == IF Len(fs) = 6 THEN Tail(fs) ELSE fs IN
    /\ Len(fs) = 5 \/ (withSeconds /\ Len(fs) = 6)
    /\ Len(fs) = 6 => CronField(fs[1], 0, 59)
    /\ \A i \in 1..5 : CronField(five[i], CronRanges[i][1], CronRanges[i][2])

\* s.scheduler.NewJob(jobDefinition, task, options...): the error returned. The
\* scheduler sets the definition up when the job is created: a crontab that does
\* not parse and an interval of zero are errors of NewJob.
NewJob(def) ==
    IF def.kind = "CronJob" /\ ~ParseCron(def.crontab, def.withSeconds)
    THEN "gocron: CronJob: crontab parse failure"
    ELSE IF def.kind = "DurationJob" /\ def.duration = 0
    THEN "gocron: DurationJob: time interval is 0"
    ELSE "nil"

\* Mutant: the error of createJobDefinition is not looked at.
addJob_DefinitionErrorDropped(factories, jobConfig) ==
    IF jobConfig.Name \notin factories
    THEN "job factory not found for: " \o jobConfig.Name
    ELSE LET jd == createJobDefinition(jobConfig) IN
         IF NewJob(jd.def) # "nil"
         THEN "failed to add job to scheduler: failed to create job: " \o NewJob(jd.def)
         ELSE "nil"

\* addJob: the error returned, "nil" when the job was created in the scheduler
addJob(factories, jobConfig) ==
    IF jobConfig.Name \notin factories
    THEN "job factory not found for: " \o jobConfig.Name
    ELSE LET jd == createJobDefinition(jobConfig) IN
         IF jd.err # "nil"
         THEN "failed to create job definition: " \o jd.err
         ELSE IF NewJob(jd.def) # "nil"
         THEN "failed to add job to scheduler: failed to create job: " \o NewJob(jd.def)
         ELSE "nil"

\* A goroutine outside any call, and one inside a call op: added is the number
\* of jobs the call has added, was the scheduler's state when the call began.
Idle == [pc |-> "idle", op |-> "", added |-> 0, was |-> ""]

\* What a call returned: its error, the jobs it added, the scheduler's state when
\* it began, and for GetJobsStatus the list returned.
Returned(op, err, added, was, value) ==
    [op |-> op, err |-> err, added |-> added, was |-> was, value |-> value]

\* NewSchedulerService and NewJobRegistry, whatever the configuration
InitRegistry ==
    /\ registeredJobs = {"hello_job"}
    /\ jobs = <<>>
    /\ sched = "new"
    /\ inflight = {}
    /\ th = [t \in Goroutines |-> Idle]
    /\ ret = [t \in Goroutines |-> Returned("", "nil", 0, "", <<>>)]
    /\ inits = 0
    /\ stopReturned = FALSE

InitScheduler ==
    /\ config \in Configs
    /\ InitRegistry

\* RegisterJob(name, factory), at startup
RegisterJob ==
    /\ inits = 0
    /\ \A t \in Threads : th[t].pc = "idle" /\ ret[t].op = ""
    /\ \E name \in {"cleanup_job"} :
        /\ name \notin registeredJobs
        /\ registeredJobs' = registeredJobs \cup {name}
    /\ UNCHANGED <<config, jobs, sched, inflight, th, ret, inits, stopReturned>>
    /\ UNCHANGED outsideScheduler

\* Mutant: no spec is skipped.
SkipJob_Never(jobConfig) == FALSE

\* if !jobConfig.Enabled { continue }
SkipJob(jobConfig) == ~jobConfig.Enabled

\* The loop of InitializeJobs from spec i on, js being s.jobs: the error returned
\* and s.jobs at the return. addJob -> SchedulerService.AddJob appends the job
\* that NewJob created; the first error ends the loop. The loop is one step of the
\* calling goroutine.
RECURSIVE InitializeJobsFrom(_, _, _, _)
InitializeJobsFrom(cfg, factories, i, js) ==
    IF i > Len(cfg.Jobs) THEN [err |-> "nil", jobs |-> js]
    ELSE LET jobConfig == cfg.Jobs[i]
             e == addJob(factories, jobConfig) IN
         IF SkipJob(jobConfig) THEN InitializeJobsFrom(cfg, factories, i + 1, js)
         ELSE IF e # "nil"
         THEN [err |-> "failed to add job " \o jobConfig.Name \o ": " \o e, jobs |-> js]
         ELSE InitializeJobsFrom(cfg, factories, i + 1,
                Append(js, [name |-> jobConfig.Name, type |-> jobConfig.Type, spec |-> i]))

\* Mutant: InitializeJobs() runs its loop without looking at config.Enabled.
InitializeJobs_EnabledIgnored(t) ==
    /\ th[t].pc = "idle"
    /\ MayCall(t, "InitializeJobs")
    /\ inits < MaxInits
    /\ inits' = inits + 1
    /\ LET r == InitializeJobsFrom(config, registeredJobs, 1, jobs) IN
        /\ jobs' = r.jobs
        /\ ret' = [ret EXCEPT ![t] =
                    Returned("InitializeJobs", r.err, Len(r.jobs) - Len(jobs), sched, <<>>)]
    /\ UNCHANGED <<config, registeredJobs, sched, inflight, th, stopReturned>>
    /\ UNCHANGED outsideScheduler

\* InitializeJobs(): the check of config.Enabled, and the loop
InitializeJobs(t) ==
    /\ th[t].pc = "idle"
    /\ MayCall(t, "InitializeJobs")
    /\ IF ~config.Enabled
       THEN /\ ret' = [ret EXCEPT ![t] = Returned("InitializeJobs", "nil", 0, sched, <<>>)]
            /\ UNCHANGED <<jobs, inits>>
       ELSE /\ inits < MaxInits
            /\ inits' = inits + 1
            /\ LET r == InitializeJobsFrom(config, registeredJobs, 1, jobs) IN
                /\ jobs' = r.jobs
                /\ ret' = [ret EXCEPT ![t] =
                            Returned("InitializeJobs", r.err, Len(r.jobs) - Len(jobs),
                                     sched, <<>>)]
    /\ UNCHANGED <<config, registeredJobs, sched, inflight, th, stopReturned>>
    /\ UNCHANGED outsideScheduler

\* Mutant: Start() goes on to r.scheduler.Start() whatever InitializeJobs() returned.
JobRegistryStart_ErrorIgnored(t) ==
    /\ th[t].pc = "idle"
    /\ MayCall(t, "Start")
    /\ IF ~config.Enabled
       THEN /\ ret' = [ret EXCEPT ![t] = Returned("Start", "nil", 0, sched, <<>>)]
            /\ UNCHANGED <<jobs, inits, th>>
       ELSE /\ inits < MaxInits
            /\ inits' = inits + 1
            /\ LET r == InitializeJobsFrom(config, registeredJobs, 1, jobs) IN
                /\ jobs' = r.jobs
                /\ th' = [th EXCEPT ![t] =
                            [pc |-> "start", op |-> "Start",
                             added |-> Len(r.jobs) - Len(jobs), was |-> sched]]
                /\ UNCHANGED ret
    /\ UNCHANGED <<config, registeredJobs, sched, inflight, stopReturned>>
    /\ UNCHANGED outsideScheduler

\* Start() up to r.scheduler.Start(): the check of config.Enabled, and
\* InitializeJobs(), whose error Start() returns wrapped
JobRegistryStart(t) ==
    /\ th[t].pc = "idle"
    /\ MayCall(t, "Start")
    /\ IF ~config.Enabled
       THEN /\ ret' = [ret EXCEPT ![t] = Returned("Start", "nil", 0, sched, <<>>)]
            /\ UNCHANGED <<jobs, inits, th>>
       ELSE /\ inits < MaxInits
            /\ inits' = inits + 1
            /\ LET r == InitializeJobsFrom(config, registeredJobs, 1, jobs) IN
                /\ jobs' = r.jobs
                /\ IF r.err # "nil"
                   THEN /\ ret' = [ret EXCEPT ![t] =
                                    Returned("Start", "failed to initialize jobs: " \o r.err,
                                             Len(r.jobs) - Len(jobs), sched, <<>>)]
                        /\ UNCHANGED th
                   ELSE /\ th' = [th EXCEPT ![t] =
                                    [pc |-> "start", op |-> "Start",
                                     added |-> Len(r.jobs) - Len(jobs), was |-> sched]]
                        /\ UNCHANGED ret
    /\ UNCHANGED <<config, registeredJobs, sched, inflight, stopReturned>>
    /\ UNCHANGED outsideScheduler

\* Mutant: a scheduler that Start() starts again after it was shut down.
gocronStart_Restarts(st) == "running"

\* gocron Scheduler.Start(): begins scheduling; a scheduler that was shut down
\* cannot be started again
gocronStart(st) == IF st = "shutdown" THEN "shutdown" ELSE "running"

\* SchedulerService.Start(), and Start() returns nil
SchedulerServiceStart(t) ==
    /\ th[t].pc = "start"
    /\ sched' = gocronStart(sched)
    /\ th' = [th EXCEPT ![t] = Idle]
    /\ ret' = [ret EXCEPT ![t] = Returned("Start", "nil", th[t].added, th[t].was, <<>>)]
    /\ UNCHANGED <<config, registeredJobs, jobs, inflight, inits, stopReturned>>
    /\ UNCHANGED outsideScheduler

\* Mutant: a Stop() that returns without shutting the scheduler down.
gocronShutdown_Skipped(st) == st

\* gocron Scheduler.Shutdown(): cancels the scheduler's context
gocronShutdown(st) == "shutdown"

\* Stop() -> SchedulerService.Stop() -> s.scheduler.Shutdown() is called
JobRegistryStop(t) ==
    /\ th[t].pc = "idle"
    /\ MayCall(t, "Stop")
    /\ sched' = gocronShutdown(sched)
    /\ th' = [th EXCEPT ![t] = [Idle EXCEPT !.pc = "stopping", !.op = "Stop",
                                            !.was = sched]]
    /\ UNCHANGED <<config, registeredJobs, jobs, inflight, ret, inits, stopReturned>>
    /\ UNCHANGED outsideScheduler

\* What gocron's Shutdown() can return. It waits for the executions in flight: if
\* they outlast the stop timeout it returns ErrStopSchedulerTimedOut. On a running
\* scheduler with nothing left in flight it returns nil. What it returns on a
\* scheduler that was never started or was shut down before is not stated by the
\* library's contract, so both results are possible here.
ShutdownErrors(was, pending) ==
    IF pending THEN {"gocron: timed out waiting for scheduler to stop"}
    ELSE IF was = "running" THEN {"nil"}
    ELSE {"nil", "gocron: timed out waiting for scheduler to stop"}

\* SchedulerService.Stop(): the error made of the error of Shutdown()
StopError(e) == IF e = "nil" THEN "nil" ELSE "failed to shutdown scheduler: " \o e

\* Shutdown() returns, and Stop() with it
JobRegistryStopReturn(t) ==
    /\ th[t].pc = "stopping"
    /\ \E e \in ShutdownErrors(th[t].was, inflight # {}) :
        ret' = [ret EXCEPT ![t] = Returned("Stop", StopError(e), 0, th[t].was, <<>>)]
    /\ th' = [th EXCEPT ![t] = Idle]
    /\ stopReturned' = TRUE
    /\ UNCHANGED <<config, registeredJobs, jobs, sched, inflight, inits>>
    /\ UNCHANGED outsideScheduler

\* Mutant: a job created with the tag of its name alone.
JobInfo_NameOnly(k, job) == [ID |-> k, Tags |-> <<job.name>>]

\* one entry of GetJobs(): the ID and the Tags of the k-th job created; the tags
\* are those of addJob's WithTags(jobConfig.Name, jobConfig.Type)
JobInfo(k, job) == [ID |-> k, Tags |-> <<job.name, job.type>>]

\* GetJobsStatus() -> SchedulerService.GetJobs()
GetJobsStatus(t) ==
    /\ th[t].pc = "idle"
    /\ MayCall(t, "GetJobsStatus")
    /\ ret' = [ret EXCEPT ![t] =
                Returned("GetJobsStatus", "nil", 0, sched,
                         [k \in 1..Len(jobs) |-> JobInfo(k, jobs[k])])]
    /\ UNCHANGED <<config, registeredJobs, jobs, sched, inflight, th, inits, stopReturned>>
    /\ UNCHANGED outsideScheduler

\* the scheduler runs the task of the k-th job: job.Execute() begins
Execute(k) ==
    /\ sched = "running"
    /\ k \notin inflight
    /\ Cardinality(inflight) < MaxInflight
    /\ inflight' = inflight \cup {k}
    /\ UNCHANGED <<config, registeredJobs, jobs, sched, th, ret, inits, stopReturned>>
    /\ UNCHANGED outsideScheduler

\* job.Execute() returns
ExecuteReturn(k) ==
    /\ k \in inflight
    /\ inflight' = inflight \ {k}
    /\ UNCHANGED <<config, registeredJobs, jobs, sched, th, ret, inits, stopReturned>>
    /\ UNCHANGED outsideScheduler

\* App.Run: if app.Config.Scheduler.Enabled { go func() { app.JobRegistry.Start() }() }
AppRunStart ==
    /\ config.Enabled
    /\ JobRegistryStart("app")

\* App.Stop: if app.Config.Scheduler.Enabled && app.JobRegistry != nil
\* { app.JobRegistry.Stop() }
AppStopJobRegistry ==
    /\ config.Enabled
    /\ JobRegistryStop("main")

\* The API server: the goroutine of App.Run in Start(), main in App.Stop, and the
\* executions the scheduler makes.
NextApp ==
    \/ AppRunStart
    \/ SchedulerServiceStart("app")
    \/ AppStopJobRegistry
    \/ JobRegistryStopReturn("main")
    \/ \E k \in 1..Len(jobs) : Execute(k)
    \/ \E k \in 1..Len(jobs) : ExecuteReturn(k)

NextScheduler ==
    \/ RegisterJob
    \/ \E t \in Threads :
        \/ JobRegistryStart(t)
        \/ InitializeJobs(t)
        \/ SchedulerServiceStart(t)
        \/ JobRegistryStop(t)
        \/ JobRegistryStopReturn(t)
        \/ GetJobsStatus(t)
    \/ \E k \in 1..Len(jobs) : Execute(k)
    \/ \E k \in 1..Len(jobs) : ExecuteReturn(k)

\* ------------------------------------------- Start() and GetJobs() in steps
\* SchedulerService.jobs is a plain slice and SchedulerService has no lock, so the
\* goroutine of Start() (App.Run) and the goroutines of the HTTP handlers reach
\* s.jobs one memory access at a time. th[t].pc is "loop" (in the loop of
\* InitializeJobs), "store" (in s.jobs = append(s.jobs, job): s.jobs loaded, the
\* new header not yet stored), "start", "range" (in GetJobs, after make).
NoLocals == [i |-> 0, new |-> <<>>, n |-> 0]

InitStatus == loc = [t \in Threads |-> NoLocals]

\* Start(): the check of config.Enabled; InitializeJobs() begins
StartBegin(t) ==
    /\ th[t].pc = "idle"
    /\ MayCall(t, "Start")
    /\ IF ~config.Enabled
       THEN /\ ret' = [ret EXCEPT ![t] = Returned("Start", "nil", 0, sched, <<>>)]
            /\ UNCHANGED <<th, loc, inits>>
       ELSE /\ inits < MaxInits
            /\ inits' = inits + 1
            /\ th' = [th EXCEPT ![t] = [pc |-> "loop", op |-> "Start", added |-> 0,
                                        was |-> sched]]
            /\ loc' = [loc EXCEPT ![t] = [NoLocals EXCEPT !.i = 1]]
            /\ UNCHANGED ret
    /\ UNCHANGED <<config, registeredJobs, jobs, sched, inflight, stopReturned>>
    /\ UNCHANGED outsideStatus

\* One iteration of the loop of InitializeJobs, up to the return of NewJob in
\* AddJob; s.jobs is loaded for the append.
LoopStep(t) ==
    /\ th[t].pc = "loop"
    /\ IF loc[t].i > Len(config.Jobs)
       THEN /\ th' = [th EXCEPT ![t].pc = "start"]
            /\ UNCHANGED <<loc, ret>>
       ELSE LET jobConfig == config.Jobs[loc[t].i]
                e == addJob(registeredJobs, jobConfig) IN
            IF SkipJob(jobConfig)
            THEN /\ loc' = [loc EXCEPT ![t].i = @ + 1]
                 /\ UNCHANGED <<th, ret>>
            ELSE IF e # "nil"
            THEN /\ ret' = [ret EXCEPT ![t] =
                            Returned("Start", "failed to initialize jobs: failed to add job "
                                              \o jobConfig.Name \o ": " \o e,
                                     th[t].added, th[t].was, <<>>)]
                 /\ th' = [th EXCEPT ![t] = Idle]
                 /\ loc' = [loc EXCEPT ![t] = NoLocals]
            ELSE /\ th' = [th EXCEPT ![t].pc = "store"]
                 /\ loc' = [loc EXCEPT ![t].new =
                              Append(jobs, [name |-> jobConfig.Name, type |-> jobConfig.Type,
                                            spec |-> loc[t].i])]
                 /\ UNCHANGED ret
    /\ UNCHANGED <<config, registeredJobs, jobs, sched, inflight, inits, stopReturned>>
    /\ UNCHANGED outsideStatus

\* s.jobs = append(s.jobs, job): the new header is stored
AppendStore(t) ==
    /\ th[t].pc = "store"
    /\ jobs' = loc[t].new
    /\ th' = [th EXCEPT ![t].pc = "loop", ![t].added = @ + 1]
    /\ loc' = [loc EXCEPT ![t].i = @ + 1, ![t].new = <<>>]
    /\ UNCHANGED <<config, registeredJobs, sched, inflight, ret, inits, stopReturned>>
    /\ UNCHANGED outsideStatus

\* r.scheduler.Start(), and Start() returns nil
StartEnd(t) ==
    /\ th[t].pc = "start"
    /\ sched' = gocronStart(sched)
    /\ ret' = [ret EXCEPT ![t] = Returned("Start", "nil", th[t].added, th[t].was, <<>>)]
    /\ th' = [th EXCEPT ![t] = Idle]
    /\ loc' = [loc EXCEPT ![t] = NoLocals]
    /\ UNCHANGED <<config, registeredJobs, jobs, inflight, inits, stopReturned>>
    /\ UNCHANGED outsideStatus

\* The goroutines that are storing a new header of s.jobs.
Storing == {u \in Threads : th[u].pc = "store"}

\* What a load of len(s.jobs) can give: the length in memory, or that of a header
\* another goroutine is storing at the same time.
LoadLen == {Len(jobs)} \cup {Len(loc[u].new) : u \in Storing}

\* What a load of the whole header of s.jobs can give: the header in memory, or,
\* while another goroutine stores one, a header made of words of the old and of
\* the new ("torn").
LoadHeader ==
    {[torn |-> FALSE, jobs |-> jobs]}
        \cup (IF Storing # {} THEN {[torn |-> TRUE, jobs |-> <<>>]} ELSE {})

\* GetJobs(): jobs := make([]JobInfo, len(s.jobs))
GetJobsMake(t) ==
    /\ th[t].pc = "idle"
    /\ MayCall(t, "GetJobsStatus")
    /\ \E n \in LoadLen : loc' = [loc EXCEPT ![t] = [NoLocals EXCEPT !.n = n]]
    /\ th' = [th EXCEPT ![t] = [Idle EXCEPT !.pc = "range", !.op = "GetJobsStatus"]]
    /\ UNCHANGED <<config, registeredJobs, jobs, sched, inflight, ret, inits, stopReturned>>
    /\ UNCHANGED outsideStatus

\* the zero value of JobInfo
ZeroJobInfo == [ID |-> 0, Tags |-> <<>>]

\* GetJobs(): for i, job := range s.jobs { ... jobs[i] = jobInfo }; return jobs.
\* The header of s.jobs is loaded once. jobs[i] panics when i reaches len(jobs); a
\* torn header makes the loop read outside the array.
GetJobsRange(t) ==
    /\ th[t].pc = "range"
    /\ \E h \in LoadHeader :
        ret' = [ret EXCEPT ![t] =
            IF h.torn
            THEN Returned("GetJobsStatus", "invalid memory read", 0, sched, <<>>)
            ELSE IF Len(h.jobs) > loc[t].n
            THEN Returned("GetJobsStatus", "panic: index out of range", 0, sched, <<>>)
            ELSE Returned("GetJobsStatus", "nil", 0, sched,
                          [k \in 1..loc[t].n |->
                              IF k <= Len(h.jobs) THEN JobInfo(k, h.jobs[k])
                              ELSE ZeroJobInfo])]
    /\ th' = [th EXCEPT ![t] = Idle]
    /\ loc' = [loc EXCEPT ![t] = NoLocals]
    /\ UNCHANGED <<config, registeredJobs, jobs, sched, inflight, inits, stopReturned>>
    /\ UNCHANGED outsideStatus

NextStatus ==
    \E t \in Threads :
        \/ StartBegin(t)
        \/ LoopStep(t)
        \/ AppendStore(t)
        \/ StartEnd(t)
        \/ GetJobsMake(t)
        \/ GetJobsRange(t)

\* ------------------------------------------------- the scheduler's clock
\* One job spec, Start() at some instant, and the runs of the job as time passes.
Second == 1
Minute == 60
Hour == 3600
Day == 86400

\* The schedule strings and the specs a configuration of one job is drawn from.
Schedules ==
    {S_30s, S_1m30s, S_90, S_soon, S_0200, S_1430, S_930, S_2500, S_143,
     S_cron5, S_cron6, S_cron4, S_cron61, <<>>}

ClockSpecs ==
    [Name : {"hello_job"}, Type : {"duration", "cron", "daily", "weekly"},
     Schedule : Schedules, Enabled : {TRUE}]

\* The instants Start() is called at: 00:00, 10:00, 14:30, 15:00 and 23:59:30.
StartTimes == {0, 10 * Hour, 14 * Hour + 30 * Minute, 15 * Hour, 23 * Hour + 59 * Minute + 30}

InitClock ==
    /\ now = 0
    /\ startedAt = 0
    /\ nextRun = <<>>
    /\ lastRun = <<>>
    /\ runs = <<>>
    /\ outcome = <<>>

\* The definition the k-th job was created with.
DefinitionOf(k) == createJobDefinition(config.Jobs[jobs[k].spec]).def

\* The scheduler's next run of a definition after instant t. A DurationJob runs
\* every duration; a DailyJob(1, hh:mm:ss) at the next hh:mm:ss after t; a
\* CronJob at the next instant after t that its crontab matches (some later
\* instant: the crontab is not evaluated here).
NextRuns(def, t) ==
    IF def.kind = "DurationJob" THEN {t + def.duration}
    ELSE IF def.kind = "DailyJob"
    THEN LET at == def.hours * Hour + def.minutes * Minute + def.seconds
             today == (t \div Day) * Day + at IN
         {IF today > t THEN today ELSE today + def.interval * Day}
    ELSE {t + Minute, t + Hour}

\* Start() called at an instant: InitializeJobs(), and on success
\* r.scheduler.Start(), from which the scheduler computes the next run
ClockStart ==
    /\ ret["app"].op = ""
    /\ \E t \in StartTimes :
        /\ now' = t
        /\ startedAt' = t
        /\ LET r == InitializeJobsFrom(config, registeredJobs, 1, jobs) IN
            /\ jobs' = r.jobs
            /\ IF r.err # "nil"
               THEN /\ ret' = [ret EXCEPT !["app"] =
                                Returned("Start", "failed to initialize jobs: " \o r.err,
                                         Len(r.jobs) - Len(jobs), sched, <<>>)]
                    /\ UNCHANGED <<sched, nextRun, lastRun, runs, outcome>>
               ELSE /\ ret' = [ret EXCEPT !["app"] =
                                Returned("Start", "nil", Len(r.jobs) - Len(jobs), sched, <<>>)]
                    /\ sched' = gocronStart(sched)
                    /\ nextRun' \in
                         [1..Len(r.jobs) ->
                            UNION {NextRuns(createJobDefinition(config.Jobs[j]).def, t) :
                                     j \in 1..Len(config.Jobs)}]
                    /\ \A k \in 1..Len(r.jobs) :
                         nextRun'[k] \in
                            NextRuns(createJobDefinition(config.Jobs[r.jobs[k].spec]).def, t)
                    /\ lastRun' = [k \in 1..Len(r.jobs) |-> 0]
                    /\ runs' = [k \in 1..Len(r.jobs) |-> 0]
                    /\ outcome' = [k \in 1..Len(r.jobs) |-> "none"]
    /\ UNCHANGED <<config, registeredJobs, inflight, th, inits, stopReturned>>
    /\ UNCHANGED outsideClock

\* How the work of an Execute() can end. Job.Execute() returns nothing and the
\* task is gocron.NewTask(job.Execute): the scheduler is not told.
Outcomes == {"ok", "failed"}

\* Mutant: the last run is recorded for an execution that went well only.
ClockRun_LastRunOnSuccess(k) ==
    /\ sched = "running"
    /\ runs[k] < MaxRuns
    /\ \A l \in 1..Len(jobs) : nextRun[k] <= nextRun[l]
    /\ now' = nextRun[k]
    /\ \E o \in Outcomes :
        /\ outcome' = [outcome EXCEPT ![k] = o]
        /\ lastRun' = IF o = "ok" THEN [lastRun EXCEPT ![k] = nextRun[k]] ELSE lastRun
    /\ runs' = [runs EXCEPT ![k] = @ + 1]
    /\ \E n \in NextRuns(DefinitionOf(k), nextRun[k]) : nextRun' = [nextRun EXCEPT ![k] = n]
    /\ UNCHANGED startedAt
    /\ UNCHANGED schedVars
    /\ UNCHANGED outsideClock

\* Time passes up to the next run of the k-th job: the scheduler calls its
\* Execute() and computes its next run
ClockRun(k) ==
    /\ sched = "running"
    /\ runs[k] < MaxRuns
    /\ \A l \in 1..Len(jobs) : nextRun[k] <= nextRun[l]
    /\ now' = nextRun[k]
    /\ \E o \in Outcomes : outcome' = [outcome EXCEPT ![k] = o]
    /\ lastRun' = [lastRun EXCEPT ![k] = nextRun[k]]
    /\ runs' = [runs EXCEPT ![k] = @ + 1]
    /\ \E n \in NextRuns(DefinitionOf(k), nextRun[k]) : nextRun' = [nextRun EXCEPT ![k] = n]
    /\ UNCHANGED startedAt
    /\ UNCHANGED schedVars
    /\ UNCHANGED outsideClock

\* one entry of GetJobs() with its times
JobInfoAt(k, job) ==
    [ID |-> k, NextRun |-> nextRun[k], LastRun |-> lastRun[k], Tags |-> <<job.name, job.type>>]

\* GetJobsStatus() at the current instant
ClockGetJobs ==
    /\ ret["app"].op = "Start"
    /\ ret' = [ret EXCEPT !["api"] =
                Returned("GetJobsStatus", "nil", 0, sched,
                         [k \in 1..Len(jobs) |-> JobInfoAt(k, jobs[k])])]
    /\ UNCHANGED <<config, registeredJobs, jobs, sched, inflight, th, inits, stopReturned>>
    /\ UNCHANGED clockVars
    /\ UNCHANGED outsideClock

NextClock ==
    \/ ClockStart
    \/ \E k \in 1..Len(jobs) : ClockRun(k)
    \/ ClockGetJobs

\* ------------------------------------------------------------ ID generator
\* An ID is time << (BitsSequence + BitsMachineID) | sequence << BitsMachineID |
\* machine, in an int64 that has one bit more than the three parts together.
IDBits == BitsTime + BitsSequence + BitsMachineID

MachineIDs == 0..(2^BitsMachineID - 1)

\* int64(id)
ToInt64(id) ==
    LET w == id % 2^(IDBits + 1) IN IF w >= 2^IDBits THEN w - 2^(IDBits + 1) ELSE w

\* NewSonyflakeGenerator on a machine whose ID is m: no ID generated yet
InitGenerator(m) ==
    /\ machineID = m
    /\ elapsedTime = 0
    /\ sequence = 2^BitsSequence - 1
    /\ issued = {}
    /\ last = [called |-> FALSE, id |-> 0, err |-> "nil", fresh |-> TRUE]
    /\ calls = 0

InitIdgen == InitGenerator(0)

\* g.sf.NextID() when the clock reads current: within one time unit the sequence
\* counts up, and when it wraps the time part moves on by one (the call sleeps
\* until then); a time part beyond its width is the error "over the time limit".
sfNextID(current) ==
    LET e == IF elapsedTime < current THEN current
             ELSE IF (sequence + 1) % 2^BitsSequence = 0 THEN elapsedTime + 1
             ELSE elapsedTime
        q == IF elapsedTime < current THEN 0 ELSE (sequence + 1) % 2^BitsSequence IN
    [elapsedTime |-> e, sequence |-> q,
     id |-> IF e >= 2^BitsTime THEN 0
            ELSE e * 2^(BitsSequence + BitsMachineID) + q * 2^BitsMachineID + machineID,
     err |-> IF e >= 2^BitsTime THEN "over the time limit" ELSE "nil"]

\* Mutant: the error of g.sf.NextID() is not looked at.
NextID_ErrorIgnored(r) == [id |-> ToInt64(r.id), err |-> "nil"]

\* NextID(): what it returns, r being what g.sf.NextID() returned
NextID(r) ==
    IF r.err # "nil"
    THEN [id |-> 0, err |-> "failed to generate ID: " \o r.err]
    ELSE [id |-> ToInt64(r.id), err |-> "nil"]

\* a call of NextID(), the clock reading any time since StartTime
CallNextID ==
    /\ calls < MaxIDs
    /\ calls' = calls + 1
    /\ \E current \in 0..2^BitsTime :
        LET r == sfNextID(current)
            out == NextID(r) IN
        /\ elapsedTime' = r.elapsedTime
        /\ sequence' = r.sequence
        /\ last' = [called |-> TRUE, id |-> out.id, err |-> out.err,
                    fresh |-> out.id \notin issued]
        /\ issued' = IF out.err = "nil" THEN issued \cup {out.id} ELSE issued
    /\ UNCHANGED machineID
    /\ UNCHANGED outsideIdgen

NextIdgen == CallNextID

\* ------------------------------------------- hello messages as JSON documents
\* Strings are sequences of characters. A JSON object is a record of its members,
\* a member being a string (with its text as written in the document) or a number.
C_hi == <<"h", "i">>
C_heart == <<"i", " ", "<", "3", " ", "u">>
C_path == <<"c", ":", "\\", "u">>
A_alice == <<"a">>
A_rnd == <<"r", "&", "d">>

\* model.PublishHelloRequest, after the handler's validation (both fields required)
PublishHelloRequests == [Content : {C_hi, C_heart, C_path}, Sender : {A_alice, A_rnd}]

NoRequest == [Content |-> <<>>, Sender |-> <<>>]

\* json.Marshal of a string: "<", ">" and "&" are written \u003c, \u003e and
\* \u0026, and a backslash is doubled.
RECURSIVE EscapeString(_)
EscapeString(str) ==
    IF str = <<>> THEN <<>>
    ELSE (IF Head(str) = "<" THEN <<"\\", "u", "0", "0", "3", "c">>
          ELSE IF Head(str) = ">" THEN <<"\\", "u", "0", "0", "3", "e">>
          ELSE IF Head(str) = "&" THEN <<"\\", "u", "0", "0", "2", "6">>
          ELSE IF Head(str) = "\\" THEN <<"\\", "\\">>
          ELSE <<Head(str)>>) \o EscapeString(Tail(str))

\* The character a \uXXXX escape stands for.
CodePoint(hex) ==
    IF hex = <<"0", "0", "3", "c">> THEN "<"
    ELSE IF hex = <<"0", "0", "3", "e">> THEN ">"
    ELSE IF hex = <<"0", "0", "2", "6">> THEN "&"
    ELSE "?"

\* json.Unmarshal of the text of a string
RECURSIVE UnescapeString(_)
UnescapeString(text) ==
    IF text = <<>> THEN <<>>
    ELSE IF Head(text) = "\\" /\ Len(text) >= 6 /\ text[2] = "u"
    THEN <<CodePoint(SubSeq(text, 3, 6))>> \o UnescapeString(SubSeq(text, 7, Len(text)))
    ELSE IF Head(text) = "\\" /\ Len(text) >= 2
    THEN <<text[2]>> \o UnescapeString(SubSeq(text, 3, Len(text)))
    ELSE <<Head(text)>> \o UnescapeString(Tail(text))

JString(str) == [t |-> "string", text |-> EscapeString(str), n |-> 0]
JNumber(n) == [t |-> "number", text |-> <<>>, n |-> n]

\* PublishHelloMessage(ctx, req) at instant t: the body json.Marshal(message)
\* gives, with the keys of the struct tags
PublishHelloMessage(req, t) ==
    [message_id |-> [prefix |-> "msg-", n |-> t],
     message_type |-> "hello",
     payload |-> [content |-> JString(req.Content),
                  sender |-> JString(req.Sender),
                  timestamp |-> JNumber(t)],
     timestamp |-> t]

\* Documents of other producers: a hello without a sender, one with a member the
\* HelloEvent does not have, one whose content is a number, and an order.
OtherDocuments ==
    { [message_id |-> [prefix |-> "m", n |-> 1], message_type |-> "hello",
       payload |-> [content |-> JString(C_hi)], timestamp |-> 1],
      [message_id |-> [prefix |-> "m", n |-> 1], message_type |-> "hello",
       payload |-> [content |-> JString(C_hi), sender |-> JString(A_alice),
                    trace |-> JString(C_path)], timestamp |-> 1],
      [message_id |-> [prefix |-> "m", n |-> 1], message_type |-> "hello",
       payload |-> [content |-> JNumber(7), sender |-> JString(A_alice)], timestamp |-> 1],
      [message_id |-> [prefix |-> "m", n |-> 1], message_type |-> "order",
       payload |-> [content |-> JString(C_hi), sender |-> JString(A_alice)],
       timestamp |-> 1] }

\* json.Unmarshal(body, &envelope): the members are found by the keys of the tags
\* of MessageEnvelope; Payload is a json.RawMessage, the member as it is written
MessageEnvelope(doc) ==
    [MessageID |-> doc["message_id"],
     MessageType |-> doc["message_type"],
     Payload |-> doc["payload"],
     Timestamp |-> doc["timestamp"]]

ZeroHelloEvent == [Content |-> <<>>, Sender |-> <<>>, Timestamp |-> 0]

\* A member of a string field, of a number field: missing members leave the zero
\* value, a member of the other kind is an error.
StringField(raw, key) ==
    IF key \notin DOMAIN raw THEN [ok |-> TRUE, v |-> <<>>]
    ELSE IF raw[key].t = "string" THEN [ok |-> TRUE, v |-> UnescapeString(raw[key].text)]
    ELSE [ok |-> FALSE, v |-> <<>>]

NumberField(raw, key) ==
    IF key \notin DOMAIN raw THEN [ok |-> TRUE, v |-> 0]
    ELSE IF raw[key].t = "number" THEN [ok |-> TRUE, v |-> raw[key].n]
    ELSE [ok |-> FALSE, v |-> 0]

\* Mutant: a HelloEvent whose Content has the tag "message".
UnmarshalHelloEvent_OtherTag(raw) ==
    LET c == StringField(raw, "message")
        s == StringField(raw, "sender")
        t == NumberField(raw, "timestamp") IN
    IF c.ok /\ s.ok /\ t.ok
    THEN [err |-> "nil", event |-> [Content |-> c.v, Sender |-> s.v, Timestamp |-> t.v]]
    ELSE [err |-> "json: cannot unmarshal into Go struct field", event |-> ZeroHelloEvent]

\* envelope.UnmarshalPayload(&event) with event a HelloEvent:
\* json.Unmarshal(e.Payload, v) by the tags content, sender and timestamp
UnmarshalHelloEvent(raw) ==
    LET c == StringField(raw, "content")
        s == StringField(raw, "sender")
        t == NumberField(raw, "timestamp") IN
    IF c.ok /\ s.ok /\ t.ok
    THEN [err |-> "nil", event |-> [Content |-> c.v, Sender |-> s.v, Timestamp |-> t.v]]
    ELSE [err |-> "json: cannot unmarshal into Go struct field", event |-> ZeroHelloEvent]

\* The delivery body of the dispatch above that a document stands for.
BodyOf(doc) ==
    [json |-> TRUE, message_type |-> MessageEnvelope(doc).MessageType,
     payload |-> IF UnmarshalHelloEvent(MessageEnvelope(doc).Payload).err = "nil"
                 THEN "good" ELSE "bad"]

NoEvent ==
    [handled |-> FALSE, from |-> NoRequest, payload |-> [content |-> JNumber(0)],
     calls |-> <<>>, handed |-> <<>>, decoded |-> ZeroHelloEvent, err |-> "nil"]

InitHello ==
    /\ wire = <<>>
    /\ event = NoEvent

\* the handler calls helloService.PublishHelloMessage(ctx, &req)
PublishHello ==
    /\ Len(wire) < MaxQueue
    /\ \E req \in PublishHelloRequests, t \in 1..MaxStamp :
        wire' = Append(wire, [from |-> req, doc |-> PublishHelloMessage(req, t)])
    /\ UNCHANGED event
    /\ UNCHANGED outsideHello

\* another producer publishes a document
PublishOther ==
    /\ Len(wire) < MaxQueue
    /\ \E doc \in OtherDocuments : wire' = Append(wire, [from |-> NoRequest, doc |-> doc])
    /\ UNCHANGED event
    /\ UNCHANGED outsideHello

\* ProcessIncomingMessage on the next document: the lookup by envelope.MessageType
\* and processor.ProcessMessage(ctx, &envelope, app), which decodes the payload
DispatchDocument ==
    /\ wire # <<>>
    /\ LET doc == Head(wire).doc
           envelope == MessageEnvelope(doc)
           u == UnmarshalHelloEvent(envelope.Payload) IN
        event' =
            IF envelope.MessageType \notin DOMAIN processors
            THEN [NoEvent EXCEPT !.handled = TRUE, !.from = Head(wire).from,
                                 !.payload = doc.payload]
            ELSE [handled |-> TRUE, from |-> Head(wire).from, payload |-> doc.payload,
                  calls |-> <<processors[envelope.MessageType]>>,
                  handed |-> <<envelope.Payload>>, decoded |-> u.event, err |-> u.err]
    /\ wire' = Tail(wire)
    /\ UNCHANGED outsideHello

NextHello ==
    \/ PublishHello
    \/ PublishOther
    \/ DispatchDocument

vars == <<msgVars, schedVars, statusVars, clockVars, idVars, helloVars>>

\* The consumer process (cmd/consumer): it runs no scheduler.
InitConsumer ==
    /\ InitMessaging
    /\ InitScheduler
    /\ InitStatus
    /\ InitClock
    /\ InitIdgen
    /\ InitHello
    /\ config = [Enabled |-> FALSE, Jobs |-> <<>>]

SpecMessaging == InitConsumer /\ [][NextMessaging]_vars

\* The consumer process as cmd/consumer builds it: registerEventProcessors has
\* registered the HelloProcessor, and main goes on to its return.
InitBridge ==
    /\ processors = RegisterProcessor(<<>>, "HelloProcessor")
    /\ regLog = <<"HelloProcessor">>
    /\ serving = FALSE
    /\ queue = <<>>
    /\ msgs = <<>>
    /\ nextTag = 0
    /\ cpc = "recv"
    /\ d = NoDelivery
    /\ mainpc = "wait"
    /\ InitRegistry
    /\ config = [Enabled |-> FALSE, Jobs |-> <<>>]
    /\ InitStatus
    /\ InitClock
    /\ InitIdgen
    /\ InitHello

SpecBridge == InitBridge /\ [][NextBridge]_vars

\* The scheduler in the application, with its control surface.
InitApplication ==
    /\ InitScheduler
    /\ InitMessaging
    /\ InitStatus
    /\ InitClock
    /\ InitIdgen
    /\ InitHello

SpecScheduler == InitApplication /\ [][NextScheduler]_vars

\* The API server from App.Run to the return of App.Stop.
InitApp ==
    /\ InitScheduler
    /\ InitMessaging
    /\ InitStatus
    /\ InitClock
    /\ InitIdgen
    /\ InitHello

SpecApp == InitApp /\ [][NextApp]_vars

\* The application while App.Run's goroutine is in Start() and the HTTP handlers
\* call Start() and GetJobsStatus().
InitServing ==
    /\ InitScheduler
    /\ InitMessaging
    /\ InitStatus
    /\ InitClock
    /\ InitIdgen
    /\ InitHello

SpecStatus == InitServing /\ [][NextStatus]_vars

\* The scheduler with one enabled job spec, and its clock.
InitTimed ==
    /\ InitRegistry
    /\ InitMessaging
    /\ InitStatus
    /\ InitClock
    /\ InitIdgen
    /\ InitHello
    /\ \E spec \in ClockSpecs : config = [Enabled |-> TRUE, Jobs |-> <<spec>>]

SpecClock == InitTimed /\ [][NextClock]_vars

\* The two registries from construction on, in the process that owns each: the
\* consumer process (cmd/consumer) builds the processor registry and starts no
\* scheduler; the processes that start the job registry (cmd/scheduler, the API
\* server) build no consumer service.
InitStartup ==
    /\ InitRegistry
    /\ InitStatus
    /\ InitClock
    /\ InitIdgen
    /\ InitHello
    /\ processors = <<>> /\ regLog = <<>> /\ serving = FALSE
    /\ queue = <<>> /\ msgs = <<>> /\ nextTag = 0 /\ cpc = "recv" /\ d = NoDelivery
    /\ \/ mainpc = "wait" /\ config = [Enabled |-> FALSE, Jobs |-> <<>>]
       \/ mainpc = "none" /\ config \in StartupConfigs

NextStartup ==
    \/ mainpc # "none" /\ NextMessaging
    \/ mainpc = "none" /\ RegisterJob
    \/ \E t \in Threads :
        mainpc = "none" /\ (JobRegistryStart(t) \/ InitializeJobs(t) \/ SchedulerServiceStart(t))

SpecStartup == InitStartup /\ [][NextStartup]_vars

\* The API server publishing hello messages and the consumer process, with the
\* registry as NewMessageConsumerService builds it, dispatching them.
InitHelloService ==
    /\ processors = RegisterProcessor(<<>>, "HelloProcessor")
    /\ regLog = <<"HelloProcessor">>
    /\ serving = TRUE
    /\ queue = <<>> /\ msgs = <<>> /\ nextTag = 0 /\ cpc = "recv" /\ d = NoDelivery
    /\ mainpc = "wait"
    /\ InitRegistry
    /\ config = [Enabled |-> FALSE, Jobs |-> <<>>]
    /\ InitStatus
    /\ InitClock
    /\ InitGenerator(0)
    /\ InitHello

SpecHello == InitHelloService /\ [][NextHello]_vars

\* One ID generator, on any machine.
InitGenerators ==
    /\ InitRegistry
    /\ config = [Enabled |-> FALSE, Jobs |-> <<>>]
    /\ InitMessaging
    /\ InitStatus
    /\ InitClock
    /\ \E m \in MachineIDs : InitGenerator(m)
    /\ InitHello

SpecIdgen == InitGenerators /\ [][NextIdgen]_vars

\* ------------------------------------------------------------------ claims
\* The delivery in hand carried a well-formed envelope and its handler has returned.
Dispatched == d.pulled /\ d.returned /\ d.body.json

\* The processor most recently passed to RegisterProcessor for type t.
LastRegistered(t) ==
    LET idx == {i \in 1..Len(regLog) : GetSupportedMessageType(regLog[i]) = t}
    IN regLog[CHOOSE i \in idx : \A j \in idx : j <= i]

RegisteredTypes == {GetSupportedMessageType(regLog[i]) : i \in 1..Len(regLog)}

\* C1: dispatching a well-formed envelope whose message_type has a registered
\* processor invokes the processor registered for that type, once, and no other.
C1_DispatchInvokesRegistered ==
    (Dispatched /\ d.body.message_type \in DOMAIN processors)
        => d.calls = <<processors[d.body.message_type]>>

C1_Witness ==
    /\ Dispatched
    /\ d.body.message_type = "user"
    /\ DOMAIN processors = {"hello", "user"}
    /\ d.calls = <<"UserEventProcessor">>

\* C2: dispatching a well-formed envelope whose message_type has no registered
\* processor returns no error and invokes no processor, whatever else is registered.
C2_UnknownTypeIgnored ==
    (Dispatched /\ d.body.message_type \notin DOMAIN processors)
        => (d.err = "nil" /\ d.calls = <<>>)

C2_Witness ==
    /\ Dispatched
    /\ d.body.message_type = "order"
    /\ DOMAIN processors = {"hello", "user"}
    /\ d.err = "nil"

\* C3: after any sequence of registrations the registry holds, for each type, the
\* processor registered last for it (and nothing for types never registered), and
\* that processor is the one a dispatch of the type reaches.
C3_LastRegistrationWins ==
    /\ DOMAIN processors = RegisteredTypes
    /\ \A t \in RegisteredTypes : processors[t] = LastRegistered(t)
    /\ (Dispatched /\ d.body.message_type \in RegisteredTypes)
          => d.calls = <<LastRegistered(d.body.message_type)>>

C3_Witness ==
    /\ regLog = <<"UserEventProcessor", "HelloProcessor", "HelloProcessorV2">>
    /\ Dispatched
    /\ d.body.message_type = "hello"
    /\ d.calls = <<"HelloProcessorV2">>
    /\ processors["user"] = "UserEventProcessor"

\* C4: on every delivery pulled, nothing is issued before the handler returns, and
\* then exactly one of Ack and Nack: Ack iff the handler returned no error, Nack
\* with requeue = true iff it returned an error.
Settled == d.pulled /\ d.returned /\ cpc = "recv"

FromEnabledSpec(k) == config.Jobs[jobs[k].spec].Enabled

\* Goroutine t has returned from a run of InitializeJobs (directly or in Start).
Initialized(t) == ret[t].op \in {"Start", "InitializeJobs"} /\ config.Enabled

\* Some enabled spec names a job that has no factory.
MissingFactory ==
    \E i \in 1..Len(config.Jobs) :
        config.Jobs[i].Enabled /\ config.Jobs[i].Name \notin registeredJobs

\* The specs of the configuration have names that differ from each other.
DistinctSpecNames ==
    \A i, j \in 1..Len(config.Jobs) : i # j => config.Jobs[i].Name # config.Jobs[j].Name

\* C5: once a Stop() has returned, no Execute() begins on any job, whatever Start,
\* Stop and the scheduler do afterwards.
C5_NoExecuteAfterStop == [][stopReturned => inflight' \subseteq inflight]_vars

C5_Witness ==
    /\ stopReturned
    /\ \E t \in Threads :
        /\ ret[t].op = "Start" /\ ret[t].err = "nil"
        /\ ret[t].was = "shutdown" /\ ret[t].added > 0
    /\ \E t \in Threads : ret[t].op = "Stop" /\ ret[t].was = "running"
    /\ inflight = {}

\* C6: a Start() on a registry that is already started returns no error and adds
\* no job.
C6_StartWhenStartedIsNoOp ==
    \A t \in Threads :
        (ret[t].op = "Start" /\ ret[t].was = "running")
            => (ret[t].err = "nil" /\ ret[t].added = 0)

\* C8: no job, no entry of GetJobsStatus and no execution comes from a spec with
\* enabled = false.
C8_DisabledSpecNeverScheduled ==
    /\ \A k \in 1..Len(jobs) : FromEnabledSpec(k)
    /\ \A t \in Threads : \A n \in 1..Len(ret[t].value) : FromEnabledSpec(ret[t].value[n].ID)
    /\ \A k \in inflight : FromEnabledSpec(k)

C8_Witness ==
    /\ \E i \in 1..Len(config.Jobs) : ~config.Jobs[i].Enabled
    /\ \E t \in Threads : ret[t].op = "GetJobsStatus" /\ Len(ret[t].value) = 2
    /\ inits = 2
    /\ inflight # {}

\* C9: an initialization that fails for a missing factory has added no job.
C9_NoPartialActivation ==
    \A t \in Threads :
        (Initialized(t) /\ MissingFactory) => (ret[t].err # "nil" /\ ret[t].added = 0)

\* C10: no two jobs of the active set have the same name, here even for a
\* configuration whose specs have names that differ.
C10_UniqueJobNames ==
    DistinctSpecNames =>
        \A k, l \in 1..Len(jobs) : k # l => jobs[k].name # jobs[l].name

\* C11: once shutdown has been requested the bridge pulls no new delivery, and when
\* main has finished the delivery in hand has been settled and Consume has returned.
C11_GracefulShutdown ==
    [][ /\ (mainpc # "wait" /\ cpc = "recv") => cpc' # "handle"
        /\ mainpc' = "exited" => (cpc' \in {"recv", "done"} /\ Consume' = "returned") ]_vars

\* C12: at most one delivery of the bridge is unacknowledged at any time, and the
\* bridge pulls the deliveries in the order of their delivery tags, each one only
\* after the one before it has been acknowledged or rejected.
C12_OneInFlightInOrder ==
    [][ /\ Unacked' <= 1
        /\ (cpc = "recv" /\ cpc' = "handle") =>
              /\ d'.tag = d.tag + 1
              /\ d.pulled => d.acks + d.nacks = 1 ]_vars

C12_Witness ==
    /\ cpc = "handle"
    /\ d.tag = 2
    /\ Unacked = 1
    /\ queue # <<>>

\* C15: for a body that is not an envelope the handler returns an error and has
\* invoked no processor, and the bridge rejects the delivery with requeue = true.
C15_DecodeErrorRejected ==
    (d.pulled /\ d.returned /\ ~d.body.json) =>
        /\ d.err # "nil"
        /\ d.calls = <<>>
        /\ cpc \in {"recv", "done"} => (d.nacks = 1 /\ d.acks = 0 /\ d.requeue)

C15_Witness ==
    /\ Settled
    /\ ~d.body.json
    /\ processors # <<>>
    /\ d.nacks = 1 /\ d.requeue
    /\ queue # <<>> /\ Head(queue) = d.body

\* C14: no GetJobsStatus is between its two reads of the job list while a Start
\* is inside its append to it, and every GetJobsStatus returns a list.
C14_StatusSynchronized ==
    /\ \A t, u \in Threads : ~(th[t].pc = "range" /\ th[u].pc = "store")
    /\ \A t \in Threads : ret[t].op = "GetJobsStatus" => ret[t].err = "nil"

\* The one spec of the timed configuration, and Start() has returned.
TheSpec == config.Jobs[1]
StartReturned == ret["app"].op = "Start"

\* C16: for a duration job whose schedule is 30s or 1m30s, Start() succeeds, the
\* next run is the start time plus the duration and after each run the run time
\* plus the duration, GetJobsStatus reports it, and the job has run once for
\* every whole duration elapsed since the start.
C16_IntervalNextRun ==
    (StartReturned /\ TheSpec.Type = "duration" /\ TheSpec.Schedule \in {S_30s, S_1m30s}) =>
        LET dd == IF TheSpec.Schedule = S_30s THEN 30 * Second ELSE 90 * Second IN
        /\ ret["app"].err = "nil" /\ Len(jobs) = 1
        /\ nextRun[1] = startedAt + (runs[1] + 1) * dd
        /\ runs[1] > 0 => lastRun[1] = startedAt + runs[1] * dd
        /\ runs[1] = (now - startedAt) \div dd
        /\ ret["api"].op = "GetJobsStatus" =>
              \A n \in 1..Len(ret["api"].value) :
                  LET info == ret["api"].value[n] IN
                  info.NextRun = (IF info.LastRun = 0 THEN startedAt ELSE info.LastRun) + dd

C16_Witness ==
    /\ StartReturned
    /\ TheSpec.Type = "duration" /\ TheSpec.Schedule = S_30s
    /\ startedAt = 10 * Hour
    /\ now = 10 * Hour + 30 * Second
    /\ runs = <<1>>
    /\ ret["api"].op = "GetJobsStatus"
    /\ ret["api"].value[1].NextRun = 10 * Hour + 60 * Second

\* The time of day a well-formed daily schedule of the pool denotes.
TimeOfDay(s) ==
    IF s = S_0200 THEN 2 * Hour
    ELSE IF s = S_1430 THEN 14 * Hour + 30 * Minute
    ELSE 9 * Hour + 30 * Minute

\* C17: for a daily job whose schedule is a well-formed HH:MM, Start() succeeds
\* and the next run from an instant t (the start, or the last run) is HH:MM of
\* the day of t if that is after t, else HH:MM of the day after: 14:30 from 10:00
\* is 14:30 of the same day, from 15:00 it is 14:30 of the next day.
C17_DailyNextRun ==
    (StartReturned /\ TheSpec.Type = "daily" /\ TheSpec.Schedule \in {S_0200, S_1430, S_930}) =>
        LET t == IF runs = <<0>> THEN startedAt ELSE lastRun[1]
            today == (t \div Day) * Day + TimeOfDay(TheSpec.Schedule) IN
        /\ ret["app"].err = "nil" /\ Len(jobs) = 1
        /\ nextRun[1] = IF today > t THEN today ELSE today + Day
        /\ (TheSpec.Schedule = S_1430 /\ startedAt = 10 * Hour /\ runs = <<0>>)
              => nextRun[1] = 14 * Hour + 30 * Minute
        /\ (TheSpec.Schedule = S_1430 /\ startedAt = 15 * Hour /\ runs = <<0>>)
              => nextRun[1] = Day + 14 * Hour + 30 * Minute

C17_Witness ==
    /\ StartReturned
    /\ TheSpec.Type = "daily" /\ TheSpec.Schedule = S_1430
    /\ startedAt = 15 * Hour
    /\ runs = <<1>>
    /\ now = Day + 14 * Hour + 30 * Minute
    /\ nextRun = <<2 * Day + 14 * Hour + 30 * Minute>>

\* The schedules of the pool that are well-formed for a trigger kind.
WellFormed(kind, s) ==
    \/ kind = "duration" /\ s \in {S_30s, S_1m30s}
    \/ kind = "daily" /\ s \in {S_0200, S_1430, S_930}
    \/ kind = "cron" /\ s \in {S_cron5, S_cron6}

\* C18: for each of the kinds duration, cron and daily, Start() on an enabled spec
\* with a malformed schedule returns an error, creates no job and does not start
\* the scheduler; a job that exists and runs has a well-formed schedule.
C18_ValidatedAtRegistration ==
    /\ (StartReturned /\ TheSpec.Type \in {"duration", "cron", "daily"}
          /\ ~WellFormed(TheSpec.Type, TheSpec.Schedule))
        => (ret["app"].err # "nil" /\ sched = "new" /\ jobs = <<>> /\ runs = <<>>)
    /\ jobs # <<>> => WellFormed(TheSpec.Type, TheSpec.Schedule)

C18_Witness ==
    /\ StartReturned
    /\ TheSpec.Type = "cron" /\ TheSpec.Schedule = S_cron61
    /\ ret["app"].err # "nil"
    /\ ret["api"].op = "GetJobsStatus" /\ ret["api"].value = <<>>

\* C19 as claimed: Start() on a cron spec succeeds exactly when the schedule is a
\* well-formed expression of five or of six fields.
C19_CronFiveOrSixFields ==
    (StartReturned /\ TheSpec.Type = "cron") =>
        (ret["app"].err = "nil" <=> TheSpec.Schedule \in {S_cron5, S_cron6})

\* C19 as amended: Start() on a cron spec succeeds, with the job created and the
\* scheduler running, exactly when the schedule is a well-formed expression of
\* five fields; an expression of six fields is rejected like a malformed one.
C19_CronFiveFieldsOnly ==
    (StartReturned /\ TheSpec.Type = "cron") =>
        /\ ret["app"].err = "nil" <=> TheSpec.Schedule = S_cron5
        /\ ret["app"].err = "nil" => (Len(jobs) = 1 /\ sched = "running")
        /\ ret["app"].err # "nil" => (jobs = <<>> /\ sched = "new")

C19_Witness ==
    /\ StartReturned
    /\ TheSpec.Type = "cron" /\ TheSpec.Schedule = S_cron6
    /\ ret["app"].err # "nil"
    /\ jobs = <<>>

\* C20: every ID that NextID returns without an error is strictly positive and
\* differs from every ID the generator returned before.
C20_PositiveDistinctIDs ==
    /\ (last.called /\ last.err = "nil") => (last.id > 0 /\ last.fresh)
    /\ \A id \in issued : id > 0

C20_Witness ==
    /\ calls = 3
    /\ Cardinality(issued) = 3
    /\ sequence = 1
    /\ \E id \in issued : id + 2^BitsMachineID = last.id

\* C21: when a processor is registered for the envelope's type, the error of its
\* ProcessMessage is what ProcessIncomingMessage, ConsumeMessage and the queue
\* handler each return, unchanged, and it is what the bridge settles the delivery on.
C21_ErrorPropagatedUnchanged ==
    (Dispatched /\ d.body.message_type \in DOMAIN processors) =>
        LET envelope == UnmarshalEnvelope(d.body).envelope
            e == ProcessMessage(processors[envelope.MessageType], envelope) IN
        /\ ProcessIncomingMessage(processors, d.body).err = e
        /\ ConsumeMessage(processors, d.body).err = e
        /\ messageHandler(processors, d.body).err = e
        /\ d.err = e

C21_Witness ==
    /\ Settled
    /\ d.body.json /\ d.body.message_type = "hello" /\ d.body.payload = "bad"
    /\ "hello" \in DOMAIN processors /\ processors["hello"] = "HelloProcessorV2"
    /\ d.err = "invalid payload"
    /\ d.nacks = 1

\* The delivery in hand carries an envelope whose type has no processor.
UnknownType == d.pulled /\ d.body.json /\ d.body.message_type \notin DOMAIN processors

\* C22: a delivery whose message_type has no registered processor is acknowledged
\* by the bridge, once, and never rejected: settling it puts nothing back into the
\* queue and leaves nothing unacknowledged, so the broker has no delivery of it
\* left to make.
C22_UnknownTypeAcked ==
    [][ /\ UnknownType => (d.nacks = 0 /\ ~d.requeue)
        /\ (UnknownType /\ cpc = "settle" /\ cpc' = "recv") =>
              /\ d'.acks = 1 /\ d'.nacks = 0 /\ ~d'.requeue
              /\ queue' = queue
              /\ Unacked' = Len(msgs) ]_vars

C22_Witness ==
    /\ Settled
    /\ UnknownType
    /\ d.body.message_type = "order"
    /\ DOMAIN processors = {"hello"}
    /\ d.acks = 1 /\ d.tag = 2
    /\ queue = <<>> /\ msgs = <<>>

\* C23: a handler that fails on a delivery does not end the loop of the bridge:
\* the failing delivery is rejected and the loop is back at its receive, where the
\* next delivery made is pulled and handled; the loop ends only when the channel
\* of deliveries has been closed.
C23_FailureKeepsLoopRunning ==
    [][ /\ (cpc = "settle" /\ d.err # "nil" /\ cpc' # cpc) => (cpc' = "recv" /\ d'.nacks = 1)
        /\ (cpc = "recv" /\ d.pulled /\ d.err # "nil" /\ msgs # <<>>) => ENABLED Receive
        /\ (cpc # "done" /\ cpc' = "done") => (mainpc = "stopped" /\ msgs = <<>>) ]_vars

C23_Witness ==
    /\ d.pulled /\ d.tag = 2
    /\ d.prev = "invalid payload"
    /\ d.returned /\ d.calls = <<"HelloProcessor">>
    /\ cpc = "recv" /\ d.nacks = 1
    /\ mainpc = "wait"
    /\ Len(queue) = 2

\* C24: the processor registry and the factory map are written at startup only.
\* A RegisterProcessor call is made before the consumers are started and before
\* any delivery is made; a factory is registered before any Start or
\* InitializeJobs has begun; and no step of dispatch and no step of Start or
\* InitializeJobs changes either map.
C24_RegistriesWrittenAtStartup ==
    [][ /\ processors' # processors =>
              (~serving /\ ~serving' /\ nextTag = 0 /\ ~d.pulled /\ regLog' # regLog)
        /\ (serving \/ d' # d \/ cpc' # cpc) => processors' = processors
        /\ registeredJobs' # registeredJobs =>
              (inits = 0 /\ \A t \in Threads : th[t].pc = "idle" /\ ret[t].op = "")
        /\ (inits' # inits \/ jobs' # jobs \/ th' # th \/ ret' # ret)
              => registeredJobs' = registeredJobs ]_vars

C24_Witness ==
    \/ /\ mainpc = "wait"
       /\ Len(regLog) = 2 /\ DOMAIN processors = {"hello", "user"}
       /\ Settled /\ d.calls = <<"UserEventProcessor">>
    \/ /\ mainpc = "none"
       /\ registeredJobs = {"hello_job", "cleanup_job"}
       /\ ret["app"].op = "Start" /\ ret["app"].err = "nil" /\ ret["app"].added = 2

\* The specs of the configuration that are enabled.
EnabledSpecs == {i \in 1..Len(config.Jobs) : config.Jobs[i].Enabled}

\* Exactly one initialization has run, it has returned, and without an error.
InitializedOnce ==
    /\ config.Enabled
    /\ inits = 1
    /\ \E u \in Threads : ret[u].op \in {"Start", "InitializeJobs"} /\ ret[u].err = "nil"

InitializeJobsError == InitializeJobsFrom(config, registeredJobs, 1, <<>>).err

\* C27: when InitializeJobs fails inside Start(), Start() returns its error (in
\* the wrapping "failed to initialize jobs: ...") and does not start the
\* scheduler: the scheduler is not running and no job executes, those that were
\* added before the failure included.
C27_FailedStartStartsNothing ==
    (config.Enabled /\ InitializeJobsError # "nil") =>
        /\ \A t \in Threads :
              ret[t].op = "Start" =>
                  ret[t].err = "failed to initialize jobs: " \o InitializeJobsError
        /\ \A t \in Threads : th[t].pc # "start"
        /\ sched # "running"
        /\ inflight = {}

C27_Witness ==
    /\ config.Enabled /\ InitializeJobsError # "nil"
    /\ ret["app"].op = "Start" /\ ret["app"].added = 1
    /\ ret["api"].op = "Start" /\ ret["api"].err # "nil"
    /\ Len(jobs) = 2
    /\ sched = "new"

\* C28: with enabled = false in the scheduler configuration, Start() and
\* InitializeJobs() return no error and add no job, whatever the job specs are,
\* and the scheduler is not started: no job exists and none executes.
C28_DisabledSchedulerDoesNothing ==
    ~config.Enabled =>
        /\ \A t \in Threads :
              ret[t].op \in {"Start", "InitializeJobs"} =>
                  (ret[t].err = "nil" /\ ret[t].added = 0)
        /\ \A t \in Threads : th[t].pc # "start"
        /\ jobs = <<>>
        /\ inits = 0
        /\ sched # "running"
        /\ inflight = {}

C28_Witness ==
    /\ ~config.Enabled
    /\ Len(config.Jobs) = 2 /\ config.Jobs[1].Enabled /\ config.Jobs[2].Enabled
    /\ ~MissingFactory
    /\ ret["app"].op = "Start" /\ ret["app"].err = "nil"
    /\ ret["api"].op = "InitializeJobs" /\ ret["api"].err = "nil"
    /\ jobs = <<>> /\ sched = "new"

\* C29: in the API server, however the Start() that App.Run makes in its goroutine
\* and the Stop() of App.Stop interleave, once that Stop() has returned (and
\* App.Stop after it) the scheduler is not running, also when Start() goes on
\* to r.scheduler.Start() afterwards, and no execution of a job begins.
C29_StoppedAfterAppStop ==
    [][ /\ stopReturned' => sched' # "running"
        /\ stopReturned => inflight' \subseteq inflight ]_vars

C29_Witness ==
    /\ stopReturned
    /\ ret["main"].op = "Stop" /\ ret["main"].was = "new"
    /\ ret["app"].op = "Start" /\ ret["app"].err = "nil" /\ ret["app"].was = "new"
    /\ Len(jobs) = 2
    /\ sched = "shutdown"

\* C30: the payload the processor is handed is the payload member of the inbound
\* document, as it was written; and a document built by PublishHelloMessage from
\* content c and sender s is dispatched to the hello processor, without an
\* error, and the HelloEvent it decodes has Content c and Sender s. The dispatch
\* of the documents agrees with ProcessIncomingMessage on the bodies they stand for.
C30_PayloadPassedThrough ==
    /\ event.handled =>
          /\ \A i \in 1..Len(event.handed) : event.handed[i] = event.payload
          /\ event.calls # <<>> => event.decoded = UnmarshalHelloEvent(event.payload).event
          /\ event.from # NoRequest =>
                /\ event.calls = <<"HelloProcessor">>
                /\ Len(event.handed) = 1
                /\ event.err = "nil"
                /\ event.decoded.Content = event.from.Content
                /\ event.decoded.Sender = event.from.Sender
    /\ \A i \in 1..Len(wire) :
          LET r == ProcessIncomingMessage(processors, BodyOf(wire[i].doc)) IN
          wire[i].from # NoRequest => (r.calls = <<"HelloProcessor">> /\ r.err = "nil")

C30_Witness ==
    /\ event.handled
    /\ event.from = [Content |-> C_heart, Sender |-> A_rnd]
    /\ event.payload.content.text # C_heart
    /\ event.decoded.Content = C_heart /\ event.decoded.Sender = A_rnd
    /\ event.decoded.Timestamp = 2
    /\ wire # <<>> /\ wire[1].from.Content = C_path

====
